---------------------------- MODULE Spec2Model ----------------------------
(***************************************************************************)
(* Model of generate_params (src/src/main.rs): the main thread, the G1     *)
(* power-of-tau producer thread, the Pedersen producer thread and the      *)
(* progress reporter thread, with the shared Generator object.             *)
(*                                                                         *)
(* Scaling.  MAX_COUNT is 2^32 in the source; here it is a small number so *)
(* that a whole run can be explored.  The scalar field and the groups G1   *)
(* and G2 are modelled by the ring Z_ScalarOrder: a point is represented   *)
(* by its discrete logarithm with respect to the group generator, so the   *)
(* generator is 1 and "point * scalar" is multiplication modulo            *)
(* ScalarOrder.  get_random_point draws from the set Points.                *)
(***************************************************************************)
EXTENDS Integers, Sequences, FiniteSets, TLC

\* `MAX_COUNT = u32::MAX as usize + 1`, scaled down from 2^32.
MAX_COUNT == 4

\* Order of the scalar ring standing in for the BLS12-381 scalar field.
ScalarOrder == 3

Scalars == 0 .. (ScalarOrder - 1)

\* The points get_random_point can return (two suffice to tell slots apart).
Points == 0 .. 1

\* Values of --g1-count / --p-count explored: below, at and above MAX_COUNT.
Counts == {MAX_COUNT - 1, MAX_COUNT, MAX_COUNT + 1}

\* Values of --g1-chunk-length / --p-chunk-length explored: the rejected
\* lengths 0 and 1, the least accepted length 2, and 3.
ChunkLengths == 0 .. 3

\* G1Projective::generator() and G2Projective::generator(), as discrete logs.
G1_GENERATOR == 1
G2_GENERATOR == 1

\* H384::zero(), the initial content of every chunk slot.
H384_ZERO == 0

(***************************************************************************)
(* Pure helpers                                                            *)
(***************************************************************************)

\* Mutant of ScalarMul: the group addition in place of the scalar multiplication.
ScalarMul_Add(point, scalar) == (point + scalar) % ScalarOrder

\* `g *= self.tau` / `G2Projective::generator() * self.tau`.
ScalarMul(point, scalar) == (point * scalar) % ScalarOrder

\* H384::from_slice(g.to_bytes()): the 48-byte compressed encoding.  It is
\* injective and never the all-zero word (the compression flag bit is set).
EncodeG1(point) == point + 1

\* H768::from_slice(g2.to_bytes()): the 96-byte compressed encoding.
EncodeG2(point) == point + 1 + ScalarOrder

\* Mutant of Validate: `count >= MAX_COUNT` in place of `count > MAX_COUNT`.
Validate_OffByOne(count, chunk_length) ==
    IF count >= MAX_COUNT THEN "err_count"
    ELSE IF chunk_length < 2 THEN "err_chunk"
    ELSE "accepted"

\* The two precondition checks at the head of generate_g1/generate_pedersen.
Validate(count, chunk_length) ==
    IF count > MAX_COUNT THEN "err_count"
    ELSE IF chunk_length < 2 THEN "err_chunk"
    ELSE "accepted"

\* `if index >= MAX_COUNT { return Ok(()); }`: the requested count is not
\* consulted by the loop.
LoopFinished(index, count) == index >= MAX_COUNT

\* Mutant of Slot: the slot of the next index.
Slot_Shifted(index, chunk_length) == ((index + 1) % chunk_length) + 1

\* `index % chunk_length`, as a 1-based position of the chunk sequence.
Slot(index, chunk_length) == (index % chunk_length) + 1

\* Mutant of IsLastSlot: flush when the first slot of a chunk is filled.
IsLastSlot_FirstSlot(index, chunk_length) == index % chunk_length = 0

\* `index % chunk_length == chunk_length - 1`.
IsLastSlot(index, chunk_length) == index % chunk_length = chunk_length - 1

\* `index / chunk_length`.
ChunkIndex(index, chunk_length) == index \div chunk_length

\* `vec![H384::zero(); chunk_length]`.
NewChunk(chunk_length) == [j \in 1 .. chunk_length |-> H384_ZERO]

\* bincode's standard encoding of a Vec: the length, then the elements.
Serialize(chunk) == <<Len(chunk)>> \o chunk

\* The outcomes of File::create(path)? followed by encode_into_std_write(..)?
\* for one chunk: creation fails (no file), the write fails part-way (a
\* truncated file), or the whole chunk is written.
ChunkWrite(chunk_index, chunk) ==
    {[chunk_index |-> chunk_index, outcome |-> "create_failed", bytes |-> <<>>]}
    \cup {[chunk_index |-> chunk_index, outcome |-> "write_failed",
           bytes |-> SubSeq(Serialize(chunk), 1, n)] : n \in 0 .. Len(chunk)}
    \cup {[chunk_index |-> chunk_index, outcome |-> "written",
           bytes |-> Serialize(chunk)]}

\* Mutant of AfterChunkWrite: the I/O error is dropped and the loop goes on.
AfterChunkWrite_Ignore(outcome) == "println"

\* What the `?` after the chunk write does to the producer.
AfterChunkWrite(outcome) == IF outcome = "written" THEN "println" ELSE "err_io"

\* The order in which join_all visits the handles.
JoinOrder == <<"g1_generator_handle", "pedersen_generator_handle", "reporter_handle">>

VARIABLES
    args,          \* the parsed command line (Args)
    tau,           \* Generator.tau; -1 before Generator::new samples it
    g1_count,      \* Generator.g1_count (AtomicUsize)
    p_count,       \* Generator.p_count (AtomicUsize)
    print_mutex,   \* Generator.print_mutex: "free" or the thread holding it
    handle,        \* the three Mutex<Option<JoinHandle>> fields: "None"/"Some"
    main_pc,       \* position of the main thread
    join_i,        \* position of join_all's loop over JoinOrder
    g2_file,       \* the file at g2_path: [exists, bytes]
    g1_pc,         \* position of the G1 producer thread
    g1_index,      \* generate_g1's local `index`
    g1_chunk,      \* generate_g1's local `chunk`
    g,             \* generate_g1's local running point `g`
    g1_emitted,    \* the G1 stream so far: every value stored into a slot
    g1_io,         \* the chunk writes generate_g1 has attempted, in order
    p_pc,          \* position of the Pedersen producer thread
    p_index,       \* generate_pedersen's local `index`
    p_chunk,       \* generate_pedersen's local `chunk`
    p_emitted,     \* the Pedersen stream so far
    p_io,          \* the chunk writes generate_pedersen has attempted
    rep_pc,        \* position of the reporter thread
    rep_g1         \* the g1_count value the reporter loaded for its next line

main_vars == <<args, tau, main_pc, join_i, g2_file, handle>>
g1_vars == <<g1_count, g1_pc, g1_index, g1_chunk, g, g1_emitted, g1_io>>
p_vars == <<p_count, p_pc, p_index, p_chunk, p_emitted, p_io>>
rep_vars == <<rep_pc, rep_g1>>
vars == <<main_vars, g1_vars, p_vars, rep_vars, print_mutex>>

\* The process is alive until main returns; then every thread is torn down.
ProcessRunning == main_pc \notin {"exit_ok", "exit_err"}

Init ==
    /\ args \in [g1_count : Counts, g1_chunk_length : ChunkLengths,
                 p_count : Counts, p_chunk_length : ChunkLengths]
    /\ tau = -1
    /\ g1_count = 0
    /\ p_count = 0
    /\ print_mutex = "free"
    /\ handle = [h \in {"g1_generator_handle", "pedersen_generator_handle",
                        "reporter_handle"} |-> "None"]
    /\ main_pc = "new"
    /\ join_i = 1
    /\ g2_file = [exists |-> FALSE, bytes |-> <<>>]
    /\ g1_pc = "unstarted"
    /\ g1_index = 0
    /\ g1_chunk = <<>>
    /\ g = G1_GENERATOR
    /\ g1_emitted = <<>>
    /\ g1_io = <<>>
    /\ p_pc = "unstarted"
    /\ p_index = 0
    /\ p_chunk = <<>>
    /\ p_emitted = <<>>
    /\ p_io = <<>>
    /\ rep_pc = "unstarted"
    /\ rep_g1 = 0

(***************************************************************************)
(* The main thread                                                         *)
(***************************************************************************)

\* Generator::new: sample tau, zero the counters, spawn the reporter.
Generator_new ==
    /\ main_pc = "new"
    /\ \E t \in Scalars : tau' = t
    /\ g1_count' = 0
    /\ p_count' = 0
    /\ handle' = [handle EXCEPT !["reporter_handle"] = "Some"]
    /\ rep_pc' = "sleep"
    /\ main_pc' = "generate_g2"
    /\ UNCHANGED <<args, join_i, g2_file, print_mutex, rep_g1,
                   g1_pc, g1_index, g1_chunk, g, g1_emitted, g1_io,
                   p_pc, p_index, p_chunk, p_emitted, p_io>>

\* Mutant of generate_g2: main goes on whatever the outcome of the G2 write.
generate_g2_IgnoreError ==
    /\ main_pc = "generate_g2"
    /\ LET g2 == ScalarMul(G2_GENERATOR, tau)
           hex == EncodeG2(g2)
       IN \E outcome \in {"create_failed", "write_failed", "written"} :
            /\ g2_file' = CASE outcome = "create_failed" -> g2_file
                            [] outcome = "write_failed" -> [exists |-> TRUE, bytes |-> <<>>]
                            [] outcome = "written" -> [exists |-> TRUE, bytes |-> <<hex>>]
            /\ main_pc' = "g2_println"
    /\ UNCHANGED <<args, tau, join_i, handle, print_mutex, g1_vars, p_vars, rep_vars>>

\* generate_g2 up to its println: compute, create the file, write the value.
\* An I/O error returns from main through `?`.
generate_g2 ==
    /\ main_pc = "generate_g2"
    /\ LET g2 == ScalarMul(G2_GENERATOR, tau)
           hex == EncodeG2(g2)
       IN \E outcome \in {"create_failed", "write_failed", "written"} :
            /\ g2_file' = CASE outcome = "create_failed" -> g2_file
                            [] outcome = "write_failed" -> [exists |-> TRUE, bytes |-> <<>>]
                            [] outcome = "written" -> [exists |-> TRUE, bytes |-> <<hex>>]
            /\ main_pc' = IF outcome = "written" THEN "g2_println" ELSE "exit_err"
    /\ UNCHANGED <<args, tau, join_i, handle, print_mutex, g1_vars, p_vars, rep_vars>>

\* Generator::println called by generate_g2: take print_mutex ...
g2_println_lock ==
    /\ main_pc = "g2_println"
    /\ print_mutex = "free"
    /\ print_mutex' = "main"
    /\ main_pc' = "g2_printing"
    /\ UNCHANGED <<args, tau, join_i, g2_file, handle, g1_vars, p_vars, rep_vars>>

\* ... print, and release it; generate_g2 returns Ok(()).
g2_println_unlock ==
    /\ main_pc = "g2_printing"
    /\ print_mutex' = "free"
    /\ main_pc' = "start_generate_g1"
    /\ UNCHANGED <<args, tau, join_i, g2_file, handle, g1_vars, p_vars, rep_vars>>

start_generate_g1 ==
    /\ main_pc = "start_generate_g1"
    /\ handle' = [handle EXCEPT !["g1_generator_handle"] = "Some"]
    /\ g1_pc' = "validate"
    /\ main_pc' = "start_generate_pedersen"
    /\ UNCHANGED <<args, tau, join_i, g2_file, print_mutex, p_vars, rep_vars,
                   g1_count, g1_index, g1_chunk, g, g1_emitted, g1_io>>

start_generate_pedersen ==
    /\ main_pc = "start_generate_pedersen"
    /\ handle' = [handle EXCEPT !["pedersen_generator_handle"] = "Some"]
    /\ p_pc' = "validate"
    /\ main_pc' = "join_all"
    /\ join_i' = 1
    /\ UNCHANGED <<args, tau, g2_file, print_mutex, g1_vars, rep_vars,
                   p_count, p_index, p_chunk, p_emitted, p_io>>

\* Whether the thread behind a handle has returned (JoinHandle::join returns).
\* The reporter's closure is `loop { .. }` without a break: it never returns.
ThreadEnded(h) ==
    CASE h = "g1_generator_handle" -> g1_pc \in {"ok", "err_count", "err_chunk", "err_io"}
      [] h = "pedersen_generator_handle" -> p_pc \in {"ok", "err_count", "err_chunk", "err_io"}
      [] h = "reporter_handle" -> rep_pc = "returned"

\* Mutant of join_all: main returns the error of the first failed thread it
\* joins, without joining the others.
join_all_FailFast ==
    /\ main_pc = "join_all"
    /\ LET h == JoinOrder[join_i]
       IN /\ handle[h] = "Some" => ThreadEnded(h)
          /\ handle' = [handle EXCEPT ![h] = "None"]
          /\ IF (h = "g1_generator_handle" /\ g1_pc \in {"err_count", "err_chunk", "err_io"})
                \/ (h = "pedersen_generator_handle" /\ p_pc \in {"err_count", "err_chunk", "err_io"})
               THEN main_pc' = "exit_err" /\ join_i' = join_i
               ELSE IF join_i = Len(JoinOrder)
                      THEN main_pc' = "exit_ok" /\ join_i' = join_i
                      ELSE main_pc' = main_pc /\ join_i' = join_i + 1
    /\ UNCHANGED <<args, tau, g2_file, print_mutex, g1_vars, p_vars, rep_vars>>

\* One iteration of join_all's loop: take the handle, join it, drop the
\* thread's Result (`let _ = ..`).  After the last handle main returns Ok(()).
join_all ==
    /\ main_pc = "join_all"
    /\ LET h == JoinOrder[join_i]
       IN /\ handle[h] = "Some" => ThreadEnded(h)
          /\ handle' = [handle EXCEPT ![h] = "None"]
    /\ IF join_i = Len(JoinOrder)
         THEN main_pc' = "exit_ok" /\ join_i' = join_i
         ELSE main_pc' = main_pc /\ join_i' = join_i + 1
    /\ UNCHANGED <<args, tau, g2_file, print_mutex, g1_vars, p_vars, rep_vars>>

(***************************************************************************)
(* The G1 producer thread: generate_g1                                     *)
(***************************************************************************)

\* Mutant of generate_g1_validate: the first index is claimed before the
\* precondition checks are made.
generate_g1_validate_ClaimFirst ==
    /\ ProcessRunning
    /\ g1_pc = "validate"
    /\ g1_count' = g1_count + 1
    /\ LET v == Validate(args.g1_count, args.g1_chunk_length)
       IN IF v = "accepted"
            THEN /\ g1_pc' = "println"
                 /\ g1_chunk' = NewChunk(args.g1_chunk_length)
                 /\ g' = G1_GENERATOR
            ELSE /\ g1_pc' = v
                 /\ UNCHANGED <<g1_chunk, g>>
    /\ UNCHANGED <<main_vars, p_vars, rep_vars, print_mutex,
                   g1_index, g1_emitted, g1_io>>

\* The precondition checks; on success the locals `chunk` and `g` are set up.
generate_g1_validate ==
    /\ ProcessRunning
    /\ g1_pc = "validate"
    /\ LET v == Validate(args.g1_count, args.g1_chunk_length)
       IN IF v = "accepted"
            THEN /\ g1_pc' = "println"
                 /\ g1_chunk' = NewChunk(args.g1_chunk_length)
                 /\ g' = G1_GENERATOR
            ELSE /\ g1_pc' = v
                 /\ UNCHANGED <<g1_chunk, g>>
    /\ UNCHANGED <<main_vars, p_vars, rep_vars, print_mutex,
                   g1_count, g1_index, g1_emitted, g1_io>>

\* Generator::println ("Generating .." and ".. written"): take print_mutex ...
generate_g1_println_lock ==
    /\ ProcessRunning
    /\ g1_pc = "println"
    /\ print_mutex = "free"
    /\ print_mutex' = "g1"
    /\ g1_pc' = "printing"
    /\ UNCHANGED <<main_vars, p_vars, rep_vars,
                   g1_count, g1_index, g1_chunk, g, g1_emitted, g1_io>>

\* ... print, release it, and go (back) to the head of the loop.
generate_g1_println_unlock ==
    /\ ProcessRunning
    /\ g1_pc = "printing"
    /\ print_mutex' = "free"
    /\ g1_pc' = "claim"
    /\ UNCHANGED <<main_vars, p_vars, rep_vars,
                   g1_count, g1_index, g1_chunk, g, g1_emitted, g1_io>>

\* Mutant of generate_g1_claim: fetch_add(2) in place of fetch_add(1).
generate_g1_claim_AddTwo ==
    /\ ProcessRunning
    /\ g1_pc = "claim"
    /\ g1_index' = g1_count
    /\ g1_count' = g1_count + 2
    /\ g1_pc' = IF LoopFinished(g1_count, args.g1_count) THEN "ok" ELSE "compute"
    /\ UNCHANGED <<main_vars, p_vars, rep_vars, print_mutex,
                   g1_chunk, g, g1_emitted, g1_io>>

\* `let index = self.g1_count.fetch_add(1, AcqRel); if index >= MAX_COUNT ..`
generate_g1_claim ==
    /\ ProcessRunning
    /\ g1_pc = "claim"
    /\ g1_index' = g1_count
    /\ g1_count' = g1_count + 1
    /\ g1_pc' = IF LoopFinished(g1_count, args.g1_count) THEN "ok" ELSE "compute"
    /\ UNCHANGED <<main_vars, p_vars, rep_vars, print_mutex,
                   g1_chunk, g, g1_emitted, g1_io>>

\* Mutant of generate_g1_compute: a fresh scalar is sampled at every step.
generate_g1_compute_Resample ==
    /\ ProcessRunning
    /\ g1_pc = "compute"
    /\ \E t \in Scalars : g' = ScalarMul(g, t)
    /\ g1_chunk' = [g1_chunk EXCEPT ![Slot(g1_index, args.g1_chunk_length)] = EncodeG1(g')]
    /\ g1_emitted' = Append(g1_emitted, EncodeG1(g'))
    /\ g1_pc' = IF IsLastSlot(g1_index, args.g1_chunk_length) THEN "write" ELSE "claim"
    /\ UNCHANGED <<main_vars, p_vars, rep_vars, print_mutex,
                   g1_count, g1_index, g1_io>>

\* `g *= self.tau; chunk[index % chunk_length] = H384::from_slice(..)`
generate_g1_compute ==
    /\ ProcessRunning
    /\ g1_pc = "compute"
    /\ g' = ScalarMul(g, tau)
    /\ g1_chunk' = [g1_chunk EXCEPT ![Slot(g1_index, args.g1_chunk_length)] = EncodeG1(g')]
    /\ g1_emitted' = Append(g1_emitted, EncodeG1(g'))
    /\ g1_pc' = IF IsLastSlot(g1_index, args.g1_chunk_length) THEN "write" ELSE "claim"
    /\ UNCHANGED <<main_vars, p_vars, rep_vars, print_mutex,
                   g1_count, g1_index, g1_io>>

\* The body of `if index % chunk_length == chunk_length - 1` up to println.
generate_g1_write ==
    /\ ProcessRunning
    /\ g1_pc = "write"
    /\ \E w \in ChunkWrite(ChunkIndex(g1_index, args.g1_chunk_length), g1_chunk) :
         /\ g1_io' = Append(g1_io, w)
         /\ g1_pc' = AfterChunkWrite(w.outcome)
    /\ UNCHANGED <<main_vars, p_vars, rep_vars, print_mutex,
                   g1_count, g1_index, g1_chunk, g, g1_emitted>>

(***************************************************************************)
(* The Pedersen producer thread: generate_pedersen                         *)
(***************************************************************************)

generate_pedersen_validate ==
    /\ ProcessRunning
    /\ p_pc = "validate"
    /\ LET v == Validate(args.p_count, args.p_chunk_length)
       IN IF v = "accepted"
            THEN /\ p_pc' = "println"
                 /\ p_chunk' = NewChunk(args.p_chunk_length)
            ELSE /\ p_pc' = v
                 /\ UNCHANGED p_chunk
    /\ UNCHANGED <<main_vars, g1_vars, rep_vars, print_mutex,
                   p_count, p_index, p_emitted, p_io>>

generate_pedersen_println_lock ==
    /\ ProcessRunning
    /\ p_pc = "println"
    /\ print_mutex = "free"
    /\ print_mutex' = "p"
    /\ p_pc' = "printing"
    /\ UNCHANGED <<main_vars, g1_vars, rep_vars,
                   p_count, p_index, p_chunk, p_emitted, p_io>>

\* Mutant of generate_pedersen_println_unlock: the guard is not dropped when
\* println returns.
generate_pedersen_println_unlock_KeepLock ==
    /\ ProcessRunning
    /\ p_pc = "printing"
    /\ print_mutex' = print_mutex
    /\ p_pc' = "claim"
    /\ UNCHANGED <<main_vars, g1_vars, rep_vars,
                   p_count, p_index, p_chunk, p_emitted, p_io>>

generate_pedersen_println_unlock ==
    /\ ProcessRunning
    /\ p_pc = "printing"
    /\ print_mutex' = "free"
    /\ p_pc' = "claim"
    /\ UNCHANGED <<main_vars, g1_vars, rep_vars,
                   p_count, p_index, p_chunk, p_emitted, p_io>>

\* Mutant of generate_pedersen_claim: the index is claimed from g1_count.
generate_pedersen_claim_SharedCounter ==
    /\ ProcessRunning
    /\ p_pc = "claim"
    /\ p_index' = g1_count
    /\ g1_count' = g1_count + 1
    /\ p_pc' = IF LoopFinished(g1_count, args.p_count) THEN "ok" ELSE "compute"
    /\ UNCHANGED <<main_vars, rep_vars, print_mutex, p_count,
                   g1_pc, g1_index, g1_chunk, g, g1_emitted, g1_io,
                   p_chunk, p_emitted, p_io>>

\* `let index = self.p_count.fetch_add(1, AcqRel); if index >= MAX_COUNT ..`
generate_pedersen_claim ==
    /\ ProcessRunning
    /\ p_pc = "claim"
    /\ p_index' = p_count
    /\ p_count' = p_count + 1
    /\ p_pc' = IF LoopFinished(p_count, args.p_count) THEN "ok" ELSE "compute"
    /\ UNCHANGED <<main_vars, g1_vars, rep_vars, print_mutex,
                   p_chunk, p_emitted, p_io>>

\* Mutant of generate_pedersen_compute: the loop goes on to the next index
\* without writing the chunk it has just filled.
generate_pedersen_compute_NoFlush ==
    /\ ProcessRunning
    /\ p_pc = "compute"
    /\ \E point \in Points :
         /\ p_chunk' = [p_chunk EXCEPT ![Slot(p_index, args.p_chunk_length)] = EncodeG1(point)]
         /\ p_emitted' = Append(p_emitted, EncodeG1(point))
    /\ p_pc' = "claim"
    /\ UNCHANGED <<main_vars, g1_vars, rep_vars, print_mutex,
                   p_count, p_index, p_io>>

\* `let point = get_random_point(); chunk[index % chunk_length] = ..`
generate_pedersen_compute ==
    /\ ProcessRunning
    /\ p_pc = "compute"
    /\ \E point \in Points :
         /\ p_chunk' = [p_chunk EXCEPT ![Slot(p_index, args.p_chunk_length)] = EncodeG1(point)]
         /\ p_emitted' = Append(p_emitted, EncodeG1(point))
    /\ p_pc' = IF IsLastSlot(p_index, args.p_chunk_length) THEN "write" ELSE "claim"
    /\ UNCHANGED <<main_vars, g1_vars, rep_vars, print_mutex,
                   p_count, p_index, p_io>>

generate_pedersen_write ==
    /\ ProcessRunning
    /\ p_pc = "write"
    /\ \E w \in ChunkWrite(ChunkIndex(p_index, args.p_chunk_length), p_chunk) :
         /\ p_io' = Append(p_io, w)
         /\ p_pc' = AfterChunkWrite(w.outcome)
    /\ UNCHANGED <<main_vars, g1_vars, rep_vars, print_mutex,
                   p_count, p_index, p_chunk, p_emitted>>

(***************************************************************************)
(* The reporter thread (the closure spawned by start_reporting)            *)
(***************************************************************************)

\* Mutant of reporter_load_g1: fetch_add(1) in place of load.
reporter_load_g1_FetchAdd ==
    /\ ProcessRunning
    /\ rep_pc = "sleep"
    /\ rep_g1' = g1_count
    /\ g1_count' = g1_count + 1
    /\ rep_pc' = "load_p"
    /\ UNCHANGED <<main_vars, p_vars, print_mutex,
                   g1_pc, g1_index, g1_chunk, g, g1_emitted, g1_io>>

\* After the sleep: `self.g1_count.load(Acquire)`, the first print argument.
reporter_load_g1 ==
    /\ ProcessRunning
    /\ rep_pc = "sleep"
    /\ rep_g1' = g1_count
    /\ rep_pc' = "load_p"
    /\ UNCHANGED <<main_vars, g1_vars, p_vars, print_mutex>>

\* `self.p_count.load(Acquire)`, print the line, flush, and sleep again.
reporter_print ==
    /\ ProcessRunning
    /\ rep_pc = "load_p"
    /\ rep_g1' = 0
    /\ rep_pc' = "sleep"
    /\ UNCHANGED <<main_vars, g1_vars, p_vars, print_mutex>>

(***************************************************************************)
(* Specifications                                                          *)
(***************************************************************************)

MainStep ==
    \/ Generator_new
    \/ generate_g2
    \/ g2_println_lock
    \/ g2_println_unlock
    \/ start_generate_g1
    \/ start_generate_pedersen
    \/ join_all

G1Step ==
    \/ generate_g1_validate
    \/ generate_g1_println_lock
    \/ generate_g1_println_unlock
    \/ generate_g1_claim
    \/ generate_g1_compute
    \/ generate_g1_write

PedersenStep ==
    \/ generate_pedersen_validate
    \/ generate_pedersen_println_lock
    \/ generate_pedersen_println_unlock
    \/ generate_pedersen_claim
    \/ generate_pedersen_compute
    \/ generate_pedersen_write

ReporterStep ==
    \/ reporter_load_g1
    \/ reporter_print

Next == MainStep \/ G1Step \/ PedersenStep \/ ReporterStep

Spec == Init /\ [][Next]_vars

\* The same program started on accepted chunk lengths only, with the
\* scheduler's fairness: every thread that can take a step eventually does.
LiveInit ==
    /\ Init
    /\ args.g1_chunk_length = 2
    /\ args.p_chunk_length = 2

Fairness ==
    /\ WF_vars(MainStep)
    /\ WF_vars(G1Step)
    /\ WF_vars(PedersenStep)
    /\ WF_vars(ReporterStep)

FairSpec == LiveInit /\ [][Next]_vars /\ Fairness

(***************************************************************************)
(* Views of the two streams used by the properties                         *)
(***************************************************************************)

Streams == {"g1", "p"}

Pc(s) == IF s = "g1" THEN g1_pc ELSE p_pc
Counter(s) == IF s = "g1" THEN g1_count ELSE p_count
Index(s) == IF s = "g1" THEN g1_index ELSE p_index
Chunk(s) == IF s = "g1" THEN g1_chunk ELSE p_chunk
Emitted(s) == IF s = "g1" THEN g1_emitted ELSE p_emitted
Io(s) == IF s = "g1" THEN g1_io ELSE p_io
ArgCount(s) == IF s = "g1" THEN args.g1_count ELSE args.p_count
ArgLength(s) == IF s = "g1" THEN args.g1_chunk_length ELSE args.p_chunk_length

\* The stream passed its precondition checks and entered the loop.
Accepted(s) == Pc(s) \in {"println", "printing", "claim", "compute", "write", "ok", "err_io"}

Rejected(s) == Pc(s) \in {"err_count", "err_chunk"}

\* The chunk indices whose file exists (File::create succeeded).
FilesOf(s) == {Io(s)[n].chunk_index : n \in {m \in 1 .. Len(Io(s)) : Io(s)[m].outcome # "create_failed"}}

\* The chunk indices whose file was written to the end.
WrittenOf(s) == {Io(s)[n].chunk_index : n \in {m \in 1 .. Len(Io(s)) : Io(s)[m].outcome = "written"}}

\* Chunk indices a run of the model can touch.
ChunkIndices == 0 .. MAX_COUNT

(***************************************************************************)
(* Properties                                                              *)
(***************************************************************************)

\* C1: a stream returns success exactly when the claimed index reaches the
\* requested count, and no element with index >= count is ever computed.
C1_StopsAtRequestedCount ==
    \A s \in Streams :
        Accepted(s) =>
            /\ Pc(s) = "ok" => Index(s) = ArgCount(s)
            /\ Len(Emitted(s)) <= ArgCount(s)

\* C2: slot j of the file of chunk k holds stream element k*L + j; nothing
\* stale, duplicated, skipped or reordered; the n-th chunk write of a run is
\* that of chunk n-1, so no chunk index is written twice.  A file whose
\* write failed holds a prefix of the same content.
C2_ChunkSlots ==
    \A s \in Streams :
        \A n \in 1 .. Len(Io(s)) :
            LET e == Io(s)[n]
                L == ArgLength(s)
            IN /\ e.chunk_index = n - 1
               /\ e.outcome = "written" => Len(e.bytes) = L + 1
               /\ Len(e.bytes) <= L + 1
               /\ Len(e.bytes) >= 1 => e.bytes[1] = L
               /\ \A j \in 0 .. (L - 1) :
                    j + 2 <= Len(e.bytes) =>
                        /\ e.chunk_index * L + j + 1 <= Len(Emitted(s))
                        /\ e.bytes[j + 2] = Emitted(s)[e.chunk_index * L + j + 1]

C2_Witness ==
    /\ Len(p_io) = 2
    /\ p_io[2].outcome = "written"
    /\ p_io[1].bytes # p_io[2].bytes
    /\ Len(g1_io) = 1
    /\ g1_io[1].outcome = "write_failed"
    /\ Len(g1_io[1].bytes) = 2

\* C3 as stated: the file of chunk k exists if and only if the stream has
\* produced at least (k+1)*L elements.
C3_FileIffProduced ==
    \A s \in Streams :
        Accepted(s) =>
            \A k \in ChunkIndices :
                k \in FilesOf(s) <=> Len(Emitted(s)) >= (k + 1) * ArgLength(s)

\* C3 amended: the file of chunk k exists only if the stream has produced at
\* least (k+1)*L elements; and once it has produced that many, the file
\* exists unless the write of chunk k is still to be carried out or its
\* File::create failed.
C3_FileIffProducedAndFlushed ==
    \A s \in Streams :
        Accepted(s) =>
            LET L == ArgLength(s)
                files == FilesOf(s)
                produced == Len(Emitted(s))
            IN \A k \in ChunkIndices :
                LET pending == Pc(s) = "write" /\ ChunkIndex(Index(s), L) = k
                    failed == \E n \in 1 .. Len(Io(s)) :
                                 /\ Io(s)[n].chunk_index = k
                                 /\ Io(s)[n].outcome = "create_failed"
                IN /\ k \in files => produced >= (k + 1) * L
                   /\ produced >= (k + 1) * L =>
                        (k \in files \/ pending \/ failed)

C3_Witness ==
    /\ g1_pc = "write"
    /\ FilesOf("g1") = {0}
    /\ Len(g1_emitted) = 2 * args.g1_chunk_length
    /\ p_pc = "err_io"
    /\ FilesOf("p") = {0}
    /\ Len(p_io) = 2

\* C4: a stream that ends successfully with target count n and chunk length
\* L has written exactly the chunk files 0 .. floor(n/L)-1.
C4_ExactlyRequestedChunks ==
    \A s \in Streams :
        Pc(s) = "ok" =>
            /\ WrittenOf(s) = 0 .. ((ArgCount(s) \div ArgLength(s)) - 1)
            /\ FilesOf(s) = WrittenOf(s)

\* tau^n in the scalar ring.
RECURSIVE Pow(_, _)
Pow(t, n) == IF n = 0 THEN 1 ELSE (t * Pow(t, n - 1)) % ScalarOrder

\* C5: the G1 element of logical index i is base * tau^(i+1), in the stream
\* and in every chunk file slot that holds it, and the G2 value is
\* G2-base * tau for the same tau.
C5_PowersOfTau ==
    main_pc # "new" =>
        /\ \A i \in 0 .. (Len(g1_emitted) - 1) :
             g1_emitted[i + 1] = EncodeG1((G1_GENERATOR * Pow(tau, i + 1)) % ScalarOrder)
        /\ \A n \in 1 .. Len(g1_io) :
             \A j \in 0 .. (args.g1_chunk_length - 1) :
                j + 2 <= Len(g1_io[n].bytes) =>
                    g1_io[n].bytes[j + 2] =
                        EncodeG1((G1_GENERATOR
                                  * Pow(tau, g1_io[n].chunk_index * args.g1_chunk_length + j + 1))
                                 % ScalarOrder)
        /\ g2_file.bytes # <<>> =>
             g2_file.bytes = <<EncodeG2((G2_GENERATOR * tau) % ScalarOrder)>>

C5_Witness ==
    /\ main_pc # "new"
    /\ tau = 2
    /\ g2_file.bytes # <<>>
    /\ g1_pc = "ok"
    /\ Len(g1_emitted) = MAX_COUNT
    /\ Len(g1_io) >= 1
    /\ g1_emitted[1] # g1_emitted[2]

\* C6: the stream is rejected with the count error exactly when count is
\* above MAX_COUNT, with the chunk-length error exactly when count is valid
\* and chunk_length is below 2, and otherwise runs with the chunk length it
\* was given.
C6_BoundaryRejection ==
    \A s \in Streams :
        Pc(s) \notin {"unstarted", "validate"} =>
            /\ Pc(s) = "err_count" <=> ArgCount(s) >= MAX_COUNT + 1
            /\ Pc(s) = "err_chunk" <=> (ArgCount(s) <= MAX_COUNT /\ ArgLength(s) \in {0, 1})
            /\ Accepted(s) <=> (ArgCount(s) <= MAX_COUNT /\ ArgLength(s) >= 2)
            /\ Accepted(s) => Len(Chunk(s)) = ArgLength(s)

C6_Witness ==
    /\ g1_pc = "claim"
    /\ args.g1_count = MAX_COUNT
    /\ args.g1_chunk_length = 2
    /\ p_pc = "err_count"
    /\ args.p_count = MAX_COUNT + 1
    /\ args.p_chunk_length = 2

\* C7: a stream rejected with a configuration error has done no work: its
\* counter is 0, it computed no element, allocated no chunk buffer and
\* attempted no chunk write.
C7_RejectedStreamDoesNothing ==
    \A s \in Streams :
        Rejected(s) =>
            /\ Counter(s) = 0
            /\ Emitted(s) = <<>>
            /\ Chunk(s) = <<>>
            /\ Io(s) = <<>>

C7_Witness ==
    /\ g1_pc = "err_chunk"
    /\ args.g1_chunk_length = 1
    /\ p_pc = "ok"
    /\ Len(p_io) >= 1

\* C8: when the creation or the write of chunk k's file fails, that is the
\* stream's last chunk write (no retry, no later chunk), the stream has
\* ended with the I/O error, and nothing past the last element of chunk k
\* has been claimed or computed.
C8_WriteFailureIsFatal ==
    \A s \in Streams :
        \A n \in 1 .. Len(Io(s)) :
            Io(s)[n].outcome # "written" =>
                LET k == Io(s)[n].chunk_index
                IN /\ n = Len(Io(s))
                   /\ Pc(s) = "err_io"
                   /\ \A m \in 1 .. Len(Io(s)) : m # n => Io(s)[m].chunk_index < k
                   /\ Len(Emitted(s)) = (k + 1) * ArgLength(s)
                   /\ Counter(s) = (k + 1) * ArgLength(s)
                   /\ Index(s) = (k + 1) * ArgLength(s) - 1

C8_Witness ==
    /\ g1_pc = "err_io"
    /\ Len(g1_io) = 2
    /\ g1_io[2].outcome = "create_failed"
    /\ p_pc = "err_io"
    /\ Len(p_io) = 1
    /\ p_io[1].outcome = "write_failed"
    /\ main_pc = "join_all"
    /\ join_i = 3

StreamFailed(s) == Pc(s) \in {"err_count", "err_chunk", "err_io"}

\* C9: whenever a stream ends with an error, the process eventually ends
\* with a failure result.
C9_StreamErrorReachesTopLevel ==
    \A s \in Streams : [](StreamFailed(s) => <>(main_pc = "exit_err"))

\* C10: once both streams have completed, main eventually finishes its
\* joins and returns success.
C10_EventuallyDone ==
    (g1_pc = "ok" /\ p_pc = "ok") ~> (main_pc = "exit_ok")

\* C11: whenever main has returned, every thread that was spawned has been
\* joined (its handle was taken by join_all).
C11_JoinedBeforeExit ==
    ~ProcessRunning => \A h \in DOMAIN handle : handle[h] = "None"

\* The chunk files a stream running alone writes from the elements it has
\* produced: its stream cut into consecutive chunks of L elements.
SoloFiles(s) ==
    [n \in 1 .. (Len(Emitted(s)) \div ArgLength(s)) |->
        <<ArgLength(s)>> \o SubSeq(Emitted(s), (n - 1) * ArgLength(s) + 1, n * ArgLength(s))]

\* Whether sequence a is a prefix of sequence b.
IsPrefix(a, b) == Len(a) <= Len(b) /\ SubSeq(b, 1, Len(a)) = a

\* C12: under every interleaving a stream's progress and output are those of
\* the stream running alone: it has claimed exactly the indices it produced
\* (plus the one in hand), its n-th chunk write is chunk n-1 with the content
\* of its own elements (n-1)*L .. n*L-1, every complete chunk but the one
\* being written has been written, and a stream that ends successfully has
\* produced MAX_COUNT elements.
C12_ConcurrentIndependence ==
    \A s \in Streams :
        Accepted(s) =>
            /\ Counter(s) - Len(Emitted(s)) = (IF Pc(s) \in {"compute", "ok"} THEN 1 ELSE 0)
            /\ Pc(s) = "compute" => Index(s) = Len(Emitted(s))
            /\ LET solo == SoloFiles(s)
               IN /\ Len(solo) - Len(Io(s)) = (IF Pc(s) = "write" THEN 1 ELSE 0)
                  /\ \A n \in 1 .. Len(Io(s)) :
                       /\ Io(s)[n].chunk_index = n - 1
                       /\ IsPrefix(Io(s)[n].bytes, solo[n])
                       /\ Io(s)[n].outcome = "written" => Io(s)[n].bytes = solo[n]
            /\ Pc(s) = "ok" => Len(Emitted(s)) = MAX_COUNT

C12_Witness ==
    /\ g1_pc = "ok"
    /\ p_pc = "ok"
    /\ Len(g1_io) = 2
    /\ Len(p_io) = 1
    /\ rep_pc = "load_p"
    /\ rep_g1 = 1

\* The running point of generate_g1 after n iterations, as a function of the
\* sampled scalar alone.
RECURSIVE RunningPoint(_, _)
RunningPoint(t, n) == IF n = 0 THEN G1_GENERATOR ELSE ScalarMul(RunningPoint(t, n - 1), t)

\* The first n elements of the G1 stream for scalar t.
G1StreamOf(t, n) == [i \in 1 .. n |-> EncodeG1(RunningPoint(t, i))]

\* C13: the G1 stream is a function of tau: any two runs with the same tau
\* that have produced n elements hold the same n elements and the same
\* running point, and with the same chunk length every chunk file written to
\* the end has the same content.
C13_DeterministicForFixedTau ==
    g1_pc # "unstarted" =>
        /\ tau \in Scalars
        /\ g1_emitted = G1StreamOf(tau, Len(g1_emitted))
        /\ g = RunningPoint(tau, Len(g1_emitted))
        /\ \A n \in 1 .. Len(g1_io) :
             g1_io[n].outcome = "written" =>
                g1_io[n].bytes =
                    <<args.g1_chunk_length>>
                    \o SubSeq(G1StreamOf(tau, n * args.g1_chunk_length),
                              (n - 1) * args.g1_chunk_length + 1,
                              n * args.g1_chunk_length)

C13_Witness ==
    /\ g1_pc = "ok"
    /\ tau = 2
    /\ args.g1_chunk_length = 3
    /\ Len(g1_io) = 1
    /\ g1_io[1].outcome = "written"
    /\ Len(g1_emitted) = MAX_COUNT

\* C14: a stream's counter is equal to, or exactly one more than, the number
\* of elements it has computed and stored, in every state; and the value each
\* reporter load returns is within that range at the moment of the load.
C14_ClaimThenProduce ==
    /\ [](\A s \in Streams : Counter(s) - Len(Emitted(s)) \in {0, 1})
    /\ [][(rep_pc = "sleep" /\ rep_pc' = "load_p")
            => rep_g1' - Len(g1_emitted') \in {0, 1}]_vars
    /\ [][(rep_pc = "load_p" /\ rep_pc' = "sleep")
            => p_count - Len(p_emitted) \in {0, 1}]_vars

C14_Witness ==
    /\ g1_pc = "compute"
    /\ rep_pc = "load_p"
    /\ rep_g1 = Len(g1_emitted) + 1
    /\ rep_g1 >= 2
    /\ p_pc = "compute"
    /\ p_count = Len(p_emitted) + 1

\* C15: whenever a stream is not between claiming an index and producing its
\* element, and in particular after it has ended, its counter equals the
\* number of elements it has emitted (it starts at 0 and never decreases).
C15_CounterCountsEmitted ==
    \A s \in Streams :
        /\ Counter(s) >= 0
        /\ Pc(s) = "unstarted" => Counter(s) = 0
        /\ Pc(s) # "compute" => Counter(s) = Len(Emitted(s))

\* C16: every step of the main thread (generate_g2 included), of the
\* reporter and of the other producer leaves a stream's counter, chunk
\* buffer, elements and chunk files unchanged.
C16_SingleWriter ==
    [][/\ (MainStep \/ PedersenStep \/ ReporterStep)
            => UNCHANGED <<g1_count, g1_chunk, g1_emitted, g1_io>>
       /\ (MainStep \/ G1Step \/ ReporterStep)
            => UNCHANGED <<p_count, p_chunk, p_emitted, p_io>>]_vars

C16_Witness ==
    /\ g1_count >= 2
    /\ p_count >= 2
    /\ rep_pc = "load_p"
    /\ rep_g1 >= 1
    /\ main_pc = "join_all"
    /\ join_i = 2
    /\ Len(g1_io) >= 1
    /\ Len(p_io) >= 1

\* C17: the element of index (k+1)*L is claimed only after chunk k's file
\* was written; at most one complete chunk awaits its write, and only while
\* the stream is at the write; the stream's buffer has exactly L slots
\* throughout.
C17_BackPressure ==
    \A s \in Streams :
        Accepted(s) =>
            /\ Len(Chunk(s)) = ArgLength(s)
            /\ LET written == WrittenOf(s)
               IN \A k \in ChunkIndices :
                    Counter(s) > (k + 1) * ArgLength(s) => k \in written
            /\ (Len(Emitted(s)) \div ArgLength(s)) - Len(Io(s)) \in {0, 1}
            /\ (Len(Emitted(s)) \div ArgLength(s)) - Len(Io(s)) = 1 => Pc(s) = "write"

C17_Witness ==
    /\ g1_pc = "compute"
    /\ g1_index = args.g1_chunk_length
    /\ WrittenOf("g1") = {0}
    /\ p_pc = "write"
    /\ p_index = 2 * args.p_chunk_length - 1
    /\ WrittenOf("p") = {0}

\* C18: when one stream has ended with an error, the other stream still
\* runs to its end and main joins it.
C18_FailureDoesNotStopOther ==
    /\ StreamFailed("g1")
         ~> (ThreadEnded("pedersen_generator_handle")
             /\ handle["pedersen_generator_handle"] = "None")
    /\ StreamFailed("p")
         ~> (ThreadEnded("g1_generator_handle")
             /\ handle["g1_generator_handle"] = "None")

C18_Witness ==
    /\ g1_pc = "err_io"
    /\ Len(g1_io) = 1
    /\ p_pc = "ok"
    /\ Len(p_io) = 2
    /\ handle["pedersen_generator_handle"] = "None"
    /\ main_pc = "join_all"

\* A stream thread that has been started and has not returned.
Running(s) == Pc(s) \notin {"unstarted", "ok", "err_count", "err_chunk", "err_io"}

\* C19 as stated: while the process runs, every stream that has not ended has
\* an enabled step whatever the other stream is doing, and so has the
\* reporter.
C19_NoStreamWaitsOnAnother ==
    ProcessRunning =>
        /\ Running("g1") => ENABLED G1Step
        /\ Running("p") => ENABLED PedersenStep
        /\ rep_pc # "unstarted" => ENABLED ReporterStep

\* C19 amended: a stream that has not ended has an enabled step, except while
\* it waits in Generator::println for print_mutex held by the other stream,
\* which is then inside its own println and can release the mutex; the
\* reporter always has an enabled step.
C19_WaitsOnlyOnPrintMutex ==
    ProcessRunning =>
        /\ Running("g1") =>
              \/ ENABLED G1Step
              \/ /\ g1_pc = "println"
                 /\ print_mutex = "p"
                 /\ p_pc = "printing"
                 /\ ENABLED generate_pedersen_println_unlock
        /\ Running("p") =>
              \/ ENABLED PedersenStep
              \/ /\ p_pc = "println"
                 /\ print_mutex = "g1"
                 /\ g1_pc = "printing"
                 /\ ENABLED generate_g1_println_unlock
        /\ rep_pc # "unstarted" => ENABLED ReporterStep

C19_Witness ==
    /\ ProcessRunning
    /\ g1_pc = "println"
    /\ Len(g1_io) = 1
    /\ print_mutex = "p"
    /\ p_pc = "printing"
    /\ ~ENABLED G1Step

\* The G2 file as generate_g2 leaves it when it succeeds.
G2Written == [exists |-> TRUE, bytes |-> <<EncodeG2(ScalarMul(G2_GENERATOR, tau))>>]

\* Neither stream thread has been spawned or has done anything.
NoStreamActivity ==
    \A s \in Streams :
        /\ Pc(s) = "unstarted"
        /\ Counter(s) = 0
        /\ Emitted(s) = <<>>
        /\ Io(s) = <<>>

\* C20: until generate_g2 has returned no stream is started, no element is
\* claimed and no chunk file is written; a started stream finds the G2 value
\* written completely; and when generate_g2 fails the process ends with
\* neither stream started, both counters 0 and no chunk file.
C20_G2BeforeStreams ==
    /\ main_pc \in {"new", "generate_g2", "g2_println", "g2_printing"} => NoStreamActivity
    /\ (\E s \in Streams : Pc(s) # "unstarted") => g2_file = G2Written
    /\ (main_pc \notin {"new", "generate_g2"} /\ g2_file # G2Written) => main_pc = "exit_err"
    /\ main_pc = "exit_err" =>
          /\ NoStreamActivity
          /\ handle["g1_generator_handle"] = "None"
          /\ handle["pedersen_generator_handle"] = "None"

C20_Witness ==
    /\ main_pc = "exit_err"
    /\ g2_file = [exists |-> TRUE, bytes |-> <<>>]
    /\ NoStreamActivity
    /\ rep_pc # "unstarted"

=============================================================================
